---- MODULE Spec2Model ----
(***************************************************************************)
(* nreplClient.ts: the nREPL client of clojureVSCode.  Every operation of  *)
(* the exported nreplClient object builds a request and hands it to send,  *)
(* which opens a socket of its own, writes the bencoded request, and       *)
(* collects the decoded response objects until one carries the status      *)
(* "done".                                                                 *)
(*                                                                         *)
(* Bytes are one-character strings and a buffer is a sequence of them.     *)
(* JavaScript values are tagged records [t, v]: strings ("str", a sequence *)
(* of characters), integers ("int"), arrays ("list"), objects ("dict", a   *)
(* sequence of [k, v] entries in insertion order) and undefined.           *)
(***************************************************************************)
EXTENDS Integers, Sequences, FiniteSets, TLC

(* ------------------------------ bounds -------------------------------- *)

\* The number of operations of nreplClient the host invokes in one run.
MaxCalls == 2

\* The most requests a run makes: evaluate and evaluateFile send two.
MaxRequests == 2 * MaxCalls

\* The size, in bytes, of the data events that do not carry everything the
\* remote has sent so far.
ChunkStep == 20

(* ------------------------------ values -------------------------------- *)

\* The characters of the string literals the program and its remote use.
Chars(s) ==
    CASE s = "op" -> <<"o", "p">>
      [] s = "complete" -> <<"c", "o", "m", "p", "l", "e", "t", "e">>
      [] s = "symbol" -> <<"s", "y", "m", "b", "o", "l">>
      [] s = "ns" -> <<"n", "s">>
      [] s = "info" -> <<"i", "n", "f", "o">>
      [] s = "session" -> <<"s", "e", "s", "s", "i", "o", "n">>
      [] s = "eval" -> <<"e", "v", "a", "l">>
      [] s = "code" -> <<"c", "o", "d", "e">>
      [] s = "load-file" -> <<"l", "o", "a", "d", "-", "f", "i", "l", "e">>
      [] s = "file" -> <<"f", "i", "l", "e">>
      [] s = "file-path" -> <<"f", "i", "l", "e", "-", "p", "a", "t", "h">>
      [] s = "stacktrace" -> <<"s", "t", "a", "c", "k", "t", "r", "a", "c", "e">>
      [] s = "test" -> <<"t", "e", "s", "t">>
      [] s = "test-all" -> <<"t", "e", "s", "t", "-", "a", "l", "l">>
      [] s = "load?" -> <<"l", "o", "a", "d", "?">>
      [] s = "clone" -> <<"c", "l", "o", "n", "e">>
      [] s = "close" -> <<"c", "l", "o", "s", "e">>
      [] s = "ls-sessions" -> <<"l", "s", "-", "s", "e", "s", "s", "i", "o", "n", "s">>
      [] s = "status" -> <<"s", "t", "a", "t", "u", "s">>
      [] s = "done" -> <<"d", "o", "n", "e">>
      [] s = "new-session" -> <<"n", "e", "w", "-", "s", "e", "s", "s", "i", "o", "n">>
      [] s = "sessions" -> <<"s", "e", "s", "s", "i", "o", "n", "s">>
      [] s = "value" -> <<"v", "a", "l", "u", "e">>
      [] s = "out" -> <<"o", "u", "t">>
      [] s = "s0" -> <<"s", "0">>
      [] s = "s1" -> <<"s", "1">>
      [] s = "s2" -> <<"s", "2">>
      [] s = "" -> <<>>
      [] s = "x" -> <<"x">>
      [] s = "map" -> <<"m", "a", "p">>
      [] s = "user" -> <<"u", "s", "e", "r">>
      [] s = "(+ 1 1)" -> <<"(", "+", " ", "1", " ", "1", ")">>
      [] s = "/a.clj" -> <<"/", "a", ".", "c", "l", "j">>

Str(s) == [t |-> "str", v |-> Chars(s)]
Num(n) == [t |-> "int", v |-> n]
List(xs) == [t |-> "list", v |-> xs]
Dict(es) == [t |-> "dict", v |-> es]
Undefined == [t |-> "undefined", v |-> <<>>]
Entry(k, val) == [k |-> Chars(k), v |-> val]

\* obj[key] of JavaScript: the value of the first entry named key, or
\* undefined.
Get(obj, key) ==
    IF obj.t = "dict" /\ \E i \in 1..Len(obj.v) : obj.v[i].k = Chars(key)
    THEN obj.v[CHOOSE i \in 1..Len(obj.v) :
                  /\ obj.v[i].k = Chars(key)
                  /\ \A j \in 1..(i - 1) : obj.v[j].k # Chars(key)].v
    ELSE Undefined

\* key in obj
HasKey(obj, key) ==
    obj.t = "dict" /\ \E i \in 1..Len(obj.v) : obj.v[i].k = Chars(key)

\* JavaScript's truthiness: undefined, "" and 0 are falsy, every array and
\* object is truthy.
Truthy(val) ==
    CASE val.t = "undefined" -> FALSE
      [] val.t = "str" -> val.v # <<>>
      [] val.t = "int" -> val.v # 0
      [] OTHER -> TRUE

(* --------------------- bencodeUtil (bencode codec) --------------------- *)

Digits == <<"0", "1", "2", "3", "4", "5", "6", "7", "8", "9">>

IsDigit(c) == \E i \in 1..Len(Digits) : Digits[i] = c

DigitVal(c) == (CHOOSE i \in 1..Len(Digits) : Digits[i] = c) - 1

RECURSIVE Decimal(_)
Decimal(n) ==
    IF n < Len(Digits) THEN <<Digits[n + 1]>>
    ELSE Decimal(n \div Len(Digits)) \o <<Digits[(n % Len(Digits)) + 1]>>

EncodeBytes(cs) == Decimal(Len(cs)) \o <<":">> \o cs

RECURSIVE EncodeValue(_)
RECURSIVE EncodeItems(_)
RECURSIVE EncodeEntries(_)

EncodeItems(xs) ==
    IF xs = <<>> THEN <<>> ELSE EncodeValue(Head(xs)) \o EncodeItems(Tail(xs))

EncodeEntries(es) ==
    IF es = <<>> THEN <<>>
    ELSE EncodeBytes(Head(es).k) \o EncodeValue(Head(es).v)
             \o EncodeEntries(Tail(es))

\* An undefined value has no bencoding: a key that reaches the encoder with
\* one goes out as the empty string.
EncodeValue(val) ==
    CASE val.t = "str" -> EncodeBytes(val.v)
      [] val.t = "int" ->
            <<"i">> \o (IF val.v < 0 THEN <<"-">> \o Decimal(0 - val.v)
                        ELSE Decimal(val.v)) \o <<"e">>
      [] val.t = "list" -> <<"l">> \o EncodeItems(val.v) \o <<"e">>
      [] val.t = "dict" -> <<"d">> \o EncodeEntries(val.v) \o <<"e">>
      [] OTHER -> EncodeBytes(<<>>)

\* bencodeUtil.encode
encode(msg) == EncodeValue(msg)

NoParse == [ok |-> FALSE, val |-> Undefined, next |-> 0]
Parsed(val, next) == [ok |-> TRUE, val |-> val, next |-> next]

\* The number written in the digits of buf from index i on, and the index of
\* the first byte after them.
RECURSIVE ReadNumber(_, _, _)
ReadNumber(buf, i, acc) ==
    IF i <= Len(buf) /\ IsDigit(buf[i])
    THEN ReadNumber(buf, i + 1, acc * Len(Digits) + DigitVal(buf[i]))
    ELSE [n |-> acc, next |-> i]

RECURSIVE ParseValue(_, _)
RECURSIVE ParseItems(_, _, _)
RECURSIVE ParseEntries(_, _, _)

ParseInteger(buf, i) ==
    LET neg == i + 1 <= Len(buf) /\ buf[i + 1] = "-"
        from == IF neg THEN i + 2 ELSE i + 1
        num == ReadNumber(buf, from, 0)
    IN  IF num.next > from /\ num.next <= Len(buf) /\ buf[num.next] = "e"
        THEN Parsed(Num(IF neg THEN 0 - num.n ELSE num.n), num.next + 1)
        ELSE NoParse

\* A byte string is read by its declared length, never by looking for a
\* delimiter inside it.
ParseBytes(buf, i) ==
    LET num == ReadNumber(buf, i, 0)
    IN  IF /\ num.next <= Len(buf)
           /\ buf[num.next] = ":"
           /\ num.next + num.n <= Len(buf)
        THEN Parsed([t |-> "str", v |-> SubSeq(buf, num.next + 1, num.next + num.n)],
                    num.next + num.n + 1)
        ELSE NoParse

ParseItems(buf, i, acc) ==
    IF i > Len(buf) THEN NoParse
    ELSE IF buf[i] = "e" THEN Parsed(List(acc), i + 1)
    ELSE LET item == ParseValue(buf, i)
         IN  IF item.ok THEN ParseItems(buf, item.next, Append(acc, item.val))
             ELSE NoParse

ParseEntries(buf, i, acc) ==
    IF i > Len(buf) THEN NoParse
    ELSE IF buf[i] = "e" THEN Parsed(Dict(acc), i + 1)
    ELSE IF ~IsDigit(buf[i]) THEN NoParse
    ELSE LET key == ParseBytes(buf, i)
         IN  IF ~key.ok THEN NoParse
             ELSE LET item == ParseValue(buf, key.next)
                  IN  IF item.ok
                      THEN ParseEntries(buf, item.next,
                                        Append(acc, [k |-> key.val.v, v |-> item.val]))
                      ELSE NoParse

\* One complete encoded value starting at index i, or NoParse when the bytes
\* from i on are not (yet) one.
ParseValue(buf, i) ==
    IF i > Len(buf) THEN NoParse
    ELSE CASE buf[i] = "i" -> ParseInteger(buf, i)
           [] buf[i] = "l" -> ParseItems(buf, i + 1, <<>>)
           [] buf[i] = "d" -> ParseEntries(buf, i + 1, <<>>)
           [] IsDigit(buf[i]) -> ParseBytes(buf, i)
           [] OTHER -> NoParse

RECURSIVE DecodeFrom(_, _, _)
DecodeFrom(buf, i, acc) ==
    LET obj == ParseValue(buf, i)
    IN  IF obj.ok THEN DecodeFrom(buf, obj.next, Append(acc, obj.val))
        ELSE [decodedObjects |-> acc, rest |-> SubSeq(buf, i, Len(buf))]

\* bencodeUtil.decodeObjects: the complete top-level objects at the start of
\* the buffer, in order, and the bytes after them.
decodeObjects(buffer) == DecodeFrom(buffer, 1, <<>>)

(* ------------------------------- state -------------------------------- *)

\* A request (the closure of one send call) holds: call, the operation it
\* serves; given, the message as send received it; msg, the message after
\* send has stripped it; then, the callback chained on its promise;
\* connection, the descriptor send settled on; nreplResp and respObjects;
\* and its promise, with the reason of a rejection and the number of calls
\* of resolve and reject.  The list a resolved promise hands to its caller
\* is the respObjects array itself.
\*
\* A socket holds: opened, whether net.createConnection made it; to, where;
\* ended and listeners, whether client.end() and removeAllListeners() ran;
\* written, the buffers written; and, of the network, destroyed (no event
\* follows), wire (the bytes the remote answers), pos (how many of them
\* have arrived) and heard (how many of those a 'data' listener got).

VARIABLES
    connection,     \* cljConnection's current connection, or NoConnection
    calls,          \* the operations invoked so far, each with its promise
    requests,       \* one per send call: the variables its closure holds
    sockets,        \* one per send call: the net.Socket it created, if any
    notifications,  \* the requests that called vscode.window.showErrorMessage
    disconnects     \* the requests that called cljConnection.disconnect

vars == <<connection, calls, requests, sockets, notifications, disconnects>>

\* The program's state as one value, for the operators that model handlers.
World ==
    [connection |-> connection, calls |-> calls, requests |-> requests,
     sockets |-> sockets, notifications |-> notifications,
     disconnects |-> disconnects]

Becomes(w) ==
    /\ connection' = w.connection
    /\ calls' = w.calls
    /\ requests' = w.requests
    /\ sockets' = w.sockets
    /\ notifications' = w.notifications
    /\ disconnects' = w.disconnects

NoConnection == [host |-> "", port |-> 0]
CurrentConnection == [host |-> "localhost", port |-> 7888]
OtherConnection == [host |-> "remote", port |-> 7889]

\* cljConnection.getConnection
getConnection(w) == w.connection

\* cljConnection.disconnect
disconnect(w, r) ==
    [w EXCEPT !.connection = NoConnection,
              !.disconnects = Append(@, r)]

\* vscode.window.showErrorMessage
showErrorMessage(w, r) == [w EXCEPT !.notifications = Append(@, r)]

(* ------------------------------ promises ------------------------------ *)

\* A call of the promise's resolve or reject: it counts, and only the first
\* one settles the promise.
resolve(q) ==
    [q EXCEPT !.settles = @ + 1,
              !.promise = IF @ = "pending" THEN "resolved" ELSE @]

reject(q, reason) ==
    [q EXCEPT !.settles = @ + 1,
              !.promise = IF @ = "pending" THEN "rejected" ELSE @,
              !.reason = IF q.promise = "pending" THEN reason ELSE @]

\* resolve and reject as a listener of request r's socket calls them: the
\* request remembers whether its socket was ended and without listeners at
\* the call that settled it.
Detached(w, r) == w.sockets[r].ended /\ ~w.sockets[r].listeners

resolveAt(w, r) ==
    [w EXCEPT !.requests[r] =
        [resolve(@) EXCEPT !.detached = IF w.requests[r].promise = "pending"
                                        THEN Detached(w, r) ELSE @]]

rejectAt(w, r, reason) ==
    [w EXCEPT !.requests[r] =
        [reject(@, reason) EXCEPT !.detached = IF w.requests[r].promise = "pending"
                                               THEN Detached(w, r) ELSE @]]

\* The promise an operation returns, settled by the last step of its chain.
Fulfil(w, c, val) ==
    [w EXCEPT !.calls[c].promise = "resolved", !.calls[c].value = val]

Fail(w, c, reason) ==
    [w EXCEPT !.calls[c].promise = "rejected",
              !.calls[c].value = [t |-> "rejection", v |-> reason]]

(* -------------------------------- send -------------------------------- *)

\* (mutant) Any object ends the stream.
isLastNreplObject_AnyObject(nreplObjects) == nreplObjects # <<>>

\* isLastNreplObject
isLastNreplObject(nreplObjects) ==
    /\ nreplObjects # <<>>
    /\ LET lastObj == nreplObjects[Len(nreplObjects)]
           status == Get(lastObj, "status")
       IN  /\ Truthy(lastObj)
           /\ Truthy(status)
           /\ CASE status.t = "list" ->
                       \E i \in 1..Len(status.v) : status.v[i] = Str("done")
                [] status.t = "str" ->
                       \E i \in 1..Len(status.v) :
                           /\ i + Len(Chars("done")) - 1 <= Len(status.v)
                           /\ SubSeq(status.v, i, i + Len(Chars("done")) - 1)
                                  = Chars("done")
                [] OTHER -> FALSE

\* (mutant) No key is deleted.
StripUndefined_Keep(msg) == msg

\* Object.keys(msg).forEach(key => msg[key] === undefined && delete msg[key])
StripUndefined(msg) ==
    Dict(SelectSeq(msg.v, LAMBDA e : e.v # Undefined))

\* (mutant) The reduce keeps every decoded object.
validDecodedObjects_KeepAll(objs, decodedObjects) == objs \o decodedObjects

\* decodedObjects.reduce(...): an object is kept unless the ones kept before
\* it, in this batch, already end with the completion marker.
RECURSIVE validDecodedObjects(_, _)
validDecodedObjects(objs, decodedObjects) ==
    IF decodedObjects = <<>> THEN objs
    ELSE validDecodedObjects(
             IF ~isLastNreplObject(objs) THEN Append(objs, Head(decodedObjects))
             ELSE objs,
             Tail(decodedObjects))

NoSocket ==
    [opened |-> FALSE, to |-> NoConnection, ended |-> FALSE,
     listeners |-> FALSE, destroyed |-> FALSE, written |-> <<>>,
     wire |-> <<>>, pos |-> 0, heard |-> 0]

\* (mutant) send writes to a socket already open to the connection, if there
\* is one, and opens a socket only if there is none.
send_ReuseSocket(w, c, msg, explicit, then, reply) ==
    LET conn == IF explicit # NoConnection THEN explicit ELSE getConnection(w)
        q0 == [call |-> c, given |-> msg, msg |-> msg, then |-> then,
               connection |-> conn, explicit |-> explicit,
               ambient |-> w.connection, detached |-> FALSE,
               nreplResp |-> <<>>, respObjects |-> <<>>,
               promise |-> "pending", reason |-> "", settles |-> 0]
        stripped == StripUndefined(msg)
        open == {r \in DOMAIN w.sockets :
                    w.sockets[r].opened /\ w.sockets[r].to = conn}
    IN  IF conn = NoConnection
        THEN [w EXCEPT
                !.requests = Append(@, reject(q0, "No connection found.")),
                !.sockets = Append(@, NoSocket)]
        ELSE IF open # {}
        THEN LET r0 == CHOOSE r \in open : \A o \in open : r <= o
             IN  [w EXCEPT
                    !.requests = Append(@, [q0 EXCEPT !.msg = stripped]),
                    !.sockets = Append(
                        [@ EXCEPT ![r0].written = Append(@, encode(stripped))],
                        NoSocket)]
        ELSE [w EXCEPT
                !.requests = Append(@, [q0 EXCEPT !.msg = stripped]),
                !.sockets = Append(@,
                    [NoSocket EXCEPT !.opened = TRUE, !.to = conn,
                                     !.listeners = TRUE,
                                     !.written = <<encode(stripped)>>,
                                     !.wire = reply])]

\* (mutant) send prefers the current connection to its caller's.
send_CurrentFirst(w, c, msg, explicit, then, reply) ==
    LET conn == IF getConnection(w) # NoConnection THEN getConnection(w)
                ELSE explicit
        q0 == [call |-> c, given |-> msg, msg |-> msg, then |-> then,
               connection |-> conn, explicit |-> explicit,
               ambient |-> w.connection, detached |-> FALSE,
               nreplResp |-> <<>>, respObjects |-> <<>>,
               promise |-> "pending", reason |-> "", settles |-> 0]
    IN  IF conn = NoConnection
        THEN [w EXCEPT
                !.requests = Append(@, reject(q0, "No connection found.")),
                !.sockets = Append(@, NoSocket)]
        ELSE LET stripped == StripUndefined(msg)
             IN  [w EXCEPT
                    !.requests = Append(@, [q0 EXCEPT !.msg = stripped]),
                    !.sockets = Append(@,
                        [NoSocket EXCEPT !.opened = TRUE, !.to = conn,
                                         !.listeners = TRUE,
                                         !.written = <<encode(stripped)>>,
                                         !.wire = reply])]

\* (mutant) send opens the socket and writes before it looks whether it has a
\* connection.
send_SocketFirst(w, c, msg, explicit, then, reply) ==
    LET conn == IF explicit # NoConnection THEN explicit ELSE getConnection(w)
        stripped == StripUndefined(msg)
        q0 == [call |-> c, given |-> msg, msg |-> stripped, then |-> then,
               connection |-> conn, explicit |-> explicit,
               ambient |-> w.connection, detached |-> FALSE,
               nreplResp |-> <<>>, respObjects |-> <<>>,
               promise |-> "pending", reason |-> "", settles |-> 0]
        s0 == [NoSocket EXCEPT !.opened = TRUE, !.to = conn,
                               !.written = <<encode(stripped)>>]
    IN  IF conn = NoConnection
        THEN [w EXCEPT
                !.requests = Append(@, reject(q0, "No connection found.")),
                !.sockets = Append(@, s0)]
        ELSE [w EXCEPT
                !.requests = Append(@, q0),
                !.sockets = Append(@, [s0 EXCEPT !.listeners = TRUE,
                                                 !.wire = reply])]

\* send, up to the registration of its two listeners.  reply is what the
\* remote will answer on the new socket.
send(w, c, msg, explicit, then, reply) ==
    LET conn == IF explicit # NoConnection THEN explicit ELSE getConnection(w)
        q0 == [call |-> c, given |-> msg, msg |-> msg, then |-> then,
               connection |-> conn, explicit |-> explicit,
               ambient |-> w.connection, detached |-> FALSE,
               nreplResp |-> <<>>, respObjects |-> <<>>,
               promise |-> "pending", reason |-> "", settles |-> 0]
    IN  IF conn = NoConnection
        THEN [w EXCEPT
                !.requests = Append(@, reject(q0, "No connection found.")),
                !.sockets = Append(@, NoSocket)]
        ELSE LET stripped == StripUndefined(msg)
             IN  [w EXCEPT
                    !.requests = Append(@, [q0 EXCEPT !.msg = stripped]),
                    !.sockets = Append(@,
                        [NoSocket EXCEPT !.opened = TRUE, !.to = conn,
                                         !.listeners = TRUE,
                                         !.written = <<encode(stripped)>>,
                                         !.wire = reply])]

\* (mutant) The listeners stay on the socket.
EndAndDetach_KeepListeners(w, r) == [w EXCEPT !.sockets[r].ended = TRUE]

\* client.end(); client.removeAllListeners()
EndAndDetach(w, r) ==
    [w EXCEPT !.sockets[r].ended = TRUE, !.sockets[r].listeners = FALSE]

\* (mutant) Every error is taken for a refused connection.
OnError_AlwaysDisconnect(w, r, code) ==
    LET w1 == disconnect(showErrorMessage(EndAndDetach(w, r), r), r)
    IN  rejectAt(w1, r, code)

\* client.on('error', ...)
OnError(w, r, code) ==
    LET w1 == EndAndDetach(w, r)
        w2 == IF code = "ECONNREFUSED"
              THEN disconnect(showErrorMessage(w1, r), r)
              ELSE w1
    IN  rejectAt(w2, r, code)

\* (mutant) The bytes left over by a data event are forgotten: each event is
\* decoded on its own.
OnData_DropRemainder(w, r, data) ==
    LET q == w.requests[r]
        decoded == decodeObjects(data)
        respObjects == q.respObjects
                           \o validDecodedObjects(<<>>, decoded.decodedObjects)
        w1 == [w EXCEPT !.requests[r].nreplResp = decoded.rest,
                        !.requests[r].respObjects = respObjects]
    IN  IF isLastNreplObject(respObjects)
        THEN resolveAt(EndAndDetach(w1, r), r)
        ELSE w1

\* (mutant) nreplResp is one buffer for all the requests, the first one's.
OnData_SharedBuffer(w, r, data) ==
    LET q == w.requests[r]
        decoded == decodeObjects(w.requests[1].nreplResp \o data)
        respObjects == q.respObjects
                           \o validDecodedObjects(<<>>, decoded.decodedObjects)
        w1 == [w EXCEPT !.requests[1].nreplResp = decoded.rest,
                        !.requests[r].respObjects = respObjects]
    IN  IF isLastNreplObject(respObjects)
        THEN resolveAt(EndAndDetach(w1, r), r)
        ELSE w1

\* (mutant) The data handler resolves first and closes the socket afterwards.
OnData_ResolveFirst(w, r, data) ==
    LET q == w.requests[r]
        decoded == decodeObjects(q.nreplResp \o data)
        respObjects == q.respObjects
                           \o validDecodedObjects(<<>>, decoded.decodedObjects)
        w1 == [w EXCEPT !.requests[r].nreplResp = decoded.rest,
                        !.requests[r].respObjects = respObjects]
    IN  IF isLastNreplObject(respObjects)
        THEN EndAndDetach(resolveAt(w1, r), r)
        ELSE w1

\* (mutant) The data handler looks at the current connection again, and
\* rejects the request if there is none any more.
OnData_RecheckConnection(w, r, data) ==
    LET q == w.requests[r]
        decoded == decodeObjects(q.nreplResp \o data)
        respObjects == q.respObjects
                           \o validDecodedObjects(<<>>, decoded.decodedObjects)
        w1 == [w EXCEPT !.requests[r].nreplResp = decoded.rest,
                        !.requests[r].respObjects = respObjects]
    IN  IF getConnection(w) = NoConnection
        THEN rejectAt(EndAndDetach(w, r), r, "No connection found.")
        ELSE IF isLastNreplObject(respObjects)
        THEN resolveAt(EndAndDetach(w1, r), r)
        ELSE w1

\* client.on('data', ...)
OnData(w, r, data) ==
    LET q == w.requests[r]
        decoded == decodeObjects(q.nreplResp \o data)
        respObjects == q.respObjects
                           \o validDecodedObjects(<<>>, decoded.decodedObjects)
        w1 == [w EXCEPT !.requests[r].nreplResp = decoded.rest,
                        !.requests[r].respObjects = respObjects]
    IN  IF isLastNreplObject(respObjects)
        THEN resolveAt(EndAndDetach(w1, r), r)
        ELSE w1

(* ----------------------------- operations ----------------------------- *)

\* (mutant) A clone whose answer carries no session gives the session "s0".
newSession_Fallback(respObjs) ==
    LET found == SelectSeq([i \in 1..Len(respObjs) |->
                               Get(respObjs[i], "new-session")], Truthy)
    IN  IF found = <<>> THEN Str("s0") ELSE found[1]

\* (mutant) Only the first response object is looked at.
newSession_First(respObjs) == Get(respObjs[1], "new-session")

\* let [session] = respObjs.map(r => r['new-session']).filter(s => s)
newSession(respObjs) ==
    LET found == SelectSeq([i \in 1..Len(respObjs) |->
                               Get(respObjs[i], "new-session")], Truthy)
    IN  IF found = <<>> THEN Undefined ELSE found[1]

\* The requests the operations build, before send strips them.
completeMessage(symbol, ns) ==
    Dict(<<Entry("op", Str("complete")), Entry("symbol", symbol),
           Entry("ns", ns)>>)

infoMessage(symbol, ns, session) ==
    Dict(<<Entry("op", Str("info")), Entry("symbol", symbol), Entry("ns", ns),
           Entry("session", session)>>)

evalMessage(code, session_id) ==
    Dict(<<Entry("op", Str("eval")), Entry("code", code),
           Entry("session", session_id)>>)

loadFileMessage(code, filepath, session_id) ==
    Dict(<<Entry("op", Str("load-file")), Entry("file", code),
           Entry("file-path", filepath), Entry("session", session_id)>>)

stacktraceMessage(session) ==
    Dict(<<Entry("op", Str("stacktrace")), Entry("session", session)>>)

testMessage(namespace) ==
    Dict(<<Entry("op", IF Truthy(namespace) THEN Str("test")
                       ELSE Str("test-all")),
           Entry("ns", namespace), Entry("load?", Num(1))>>)

cloneMessage(session) ==
    Dict(<<Entry("op", Str("clone")), Entry("session", session)>>)

closeMessage(session) ==
    Dict(<<Entry("op", Str("close")), Entry("session", session)>>)

lsSessionsMessage == Dict(<<Entry("op", Str("ls-sessions"))>>)

\* The arguments the host passes for the code, the file and the symbol.
TheCode == Str("(+ 1 1)")
ThePath == Str("/a.clj")
TheSymbol == Str("map")

\* listSessions' callback: the test its first response object must pass.
hasSessions(response) ==
    LET status == Get(response, "status")
    IN  /\ Truthy(status)
        /\ status.t = "list"
        /\ status.v # <<>>
        /\ status.v[1] = Str("done")
        /\ Truthy(Get(response, "sessions"))

\* What the callbacks chained on request r's promise do once it has settled:
\* they run before any other event is handled.  reply is the remote's answer
\* to the request a callback may send in its turn.
RECURSIVE Then(_, _, _)

\* A send made by an operation or by a callback; a promise it rejects on the
\* spot runs its callbacks at once.
Launch(w, c, msg, explicit, then, reply) ==
    LET w2 == send(w, c, msg, explicit, then, reply)
        r2 == Len(w2.requests)
    IN  IF w2.requests[r2].promise = "pending" THEN w2 ELSE Then(w2, r2, reply)

\* (mutant) The eval request carries the session evaluate was called with.
evaluateThen_CallerSession(w, c, session_id, reply) ==
    Launch(w, c, evalMessage(TheCode, w.calls[c].arg), NoConnection, "send",
           reply)

\* evaluate's callback on its clone
evaluateThen(w, c, session_id, reply) ==
    Launch(w, c, evalMessage(TheCode, session_id), NoConnection, "send", reply)

\* evaluateFile's callback on its clone
evaluateFileThen(w, c, session_id, reply) ==
    Launch(w, c, loadFileMessage(TheCode, ThePath, session_id), NoConnection,
           "send", reply)

Then(w, r, reply) ==
    LET q == w.requests[r]
        c == q.call
        respObjs == q.respObjects
    IN  IF q.promise = "rejected" THEN Fail(w, c, q.reason)
        ELSE CASE q.then \in {"complete", "info"} -> Fulfil(w, c, respObjs[1])
               [] q.then = "send" ->
                     Fulfil(w, c, [t |-> "respObjects", v |-> r])
               [] q.then = "clone" ->
                     IF Truthy(newSession(respObjs))
                     THEN Fulfil(w, c, newSession(respObjs))
                     ELSE Fail(w, c, "No session found")
               [] q.then = "evaluate" ->
                     IF Truthy(newSession(respObjs))
                     THEN evaluateThen(w, c, newSession(respObjs), reply)
                     ELSE Fail(w, c, "No session found")
               [] q.then = "evaluateFile" ->
                     IF Truthy(newSession(respObjs))
                     THEN evaluateFileThen(w, c, newSession(respObjs), reply)
                     ELSE Fail(w, c, "No session found")
               [] q.then = "test" ->
                     IF ~HasKey(respObjs[1], "new-session")
                     THEN Fail(w, c, "false")
                     ELSE Fulfil(w, c, List(<<>>))
               [] q.then = "listSessions" ->
                     IF hasSessions(respObjs[1])
                     THEN Fulfil(w, c, Get(respObjs[1], "sessions"))
                     ELSE Fail(w, c, "No sessions found")

\* An operation is invoked: its promise is pending until its chain settles it.
Start(w, op, arg) ==
    [w EXCEPT !.calls = Append(@, [op |-> op, arg |-> arg,
                                   promise |-> "pending",
                                   value |-> Undefined])]

Invoke(w, op, arg, msg, explicit, reply) ==
    Launch(Start(w, op, arg), Len(w.calls) + 1, msg, explicit, op, reply)

complete(w, symbol, ns, reply) ==
    Invoke(w, "complete", ns, completeMessage(symbol, ns), NoConnection, reply)

info(w, symbol, ns, session, reply) ==
    Invoke(w, "info", session, infoMessage(symbol, ns, session), NoConnection,
           reply)

evaluate(w, code, session, reply) ==
    Invoke(w, "evaluate", session, cloneMessage(session), NoConnection, reply)

evaluateFile(w, code, filepath, session, reply) ==
    Invoke(w, "evaluateFile", session, cloneMessage(session), NoConnection,
           reply)

stacktrace(w, session, reply) ==
    Launch(Start(w, "stacktrace", session), Len(w.calls) + 1,
           stacktraceMessage(session), NoConnection, "send", reply)

runTests(w, namespace, reply) ==
    Launch(Start(w, "runTests", namespace), Len(w.calls) + 1,
           testMessage(namespace), NoConnection, "send", reply)

clone(w, session, reply) ==
    Invoke(w, "clone", session, cloneMessage(session), NoConnection, reply)

test(w, connectionInfo, reply) ==
    Invoke(w, "test", Undefined, Dict(<<Entry("op", Str("clone"))>>),
           connectionInfo, reply)

close(w, session, reply) ==
    Launch(Start(w, "close", session), Len(w.calls) + 1,
           closeMessage(session), NoConnection, "send", reply)

listSessions(w, reply) ==
    Invoke(w, "listSessions", Undefined, lsSessionsMessage, NoConnection, reply)

(* ------------------------------ the remote ----------------------------- *)

Done == Dict(<<Entry("status", List(<<Str("done")>>))>>)

\* The bytes of a response stream.
Stream(objs) == EncodeItems(objs)

\* What the remote may answer to a clone: a new session with the completion
\* marker, one announced after some output, none at all, and an empty one
\* before the real one.
CloneReplies ==
    { Stream(<<Dict(<<Entry("new-session", Str("s1")),
                      Entry("status", List(<<Str("done")>>))>>)>>),
      Stream(<<Dict(<<Entry("out", Str("x"))>>),
               Dict(<<Entry("new-session", Str("s2"))>>), Done>>),
      Stream(<<Done>>),
      Stream(<<Dict(<<Entry("new-session", Str(""))>>),
               Dict(<<Entry("new-session", Str("s1")),
                      Entry("status", List(<<Str("done")>>))>>)>>) }

\* ... to ls-sessions: the sessions with the marker, the marker alone, the
\* marker after another status, and the sessions before the marker.
SessionsReplies ==
    { Stream(<<Dict(<<Entry("sessions", List(<<Str("s1"), Str("s2")>>)),
                      Entry("status", List(<<Str("done")>>))>>)>>),
      Stream(<<Done>>),
      Stream(<<Dict(<<Entry("sessions", List(<<Str("s1")>>)),
                      Entry("status", List(<<Str("x"), Str("done")>>))>>)>>),
      Stream(<<Dict(<<Entry("sessions", List(<<Str("s1")>>))>>), Done>>) }

\* ... to any other request: a value and then the marker, and the marker
\* followed by more.
OtherReplies ==
    { Stream(<<Dict(<<Entry("value", Str("x"))>>), Done>>),
      Stream(<<Done, Dict(<<Entry("out", Str("x"))>>), Done>>) }

Replies(op) ==
    CASE op \in {"clone", "evaluate", "evaluateFile", "test"} -> CloneReplies
      [] op = "listSessions" -> SessionsReplies
      [] OTHER -> OtherReplies

\* The answers to the request that request q's callbacks may send.
FollowUps(q) ==
    IF q.then \in {"evaluate", "evaluateFile"} THEN OtherReplies ELSE {<<>>}

\* A data event carries ChunkStep bytes, or all that is left.
ChunkSizes(left) == { IF ChunkStep < left THEN ChunkStep ELSE left, left }

ErrorCodes == {"ECONNREFUSED", "ECONNRESET"}

Sessions == {Undefined, Str("s0")}
Namespaces == {Undefined, Str("user")}

(* ------------------------------- actions ------------------------------- *)

Init ==
    /\ connection = NoConnection
    /\ calls = <<>>
    /\ requests = <<>>
    /\ sockets = <<>>
    /\ notifications = <<>>
    /\ disconnects = <<>>

\* The host establishes the current connection.
HostConnect ==
    /\ connection = NoConnection
    /\ connection' = CurrentConnection
    /\ UNCHANGED <<calls, requests, sockets, notifications, disconnects>>

CallComplete ==
    /\ Len(calls) < MaxCalls
    /\ \E ns \in Namespaces, reply \in Replies("complete") :
           Becomes(complete(World, TheSymbol, ns, reply))

CallInfo ==
    /\ Len(calls) < MaxCalls
    /\ \E session \in Sessions, reply \in Replies("info") :
           Becomes(info(World, TheSymbol, Str("user"), session, reply))

CallEvaluate ==
    /\ Len(calls) < MaxCalls
    /\ \E session \in Sessions, reply \in Replies("evaluate") :
           Becomes(evaluate(World, TheCode, session, reply))

CallEvaluateFile ==
    /\ Len(calls) < MaxCalls
    /\ \E session \in Sessions, reply \in Replies("evaluateFile") :
           Becomes(evaluateFile(World, TheCode, ThePath, session, reply))

CallStacktrace ==
    /\ Len(calls) < MaxCalls
    /\ \E reply \in Replies("stacktrace") :
           Becomes(stacktrace(World, Str("s0"), reply))

CallRunTests ==
    /\ Len(calls) < MaxCalls
    /\ \E namespace \in Namespaces \cup {Str("")},
          reply \in Replies("runTests") :
           Becomes(runTests(World, namespace, reply))

CallClone ==
    /\ Len(calls) < MaxCalls
    /\ \E session \in Sessions, reply \in Replies("clone") :
           Becomes(clone(World, session, reply))

CallTest ==
    /\ Len(calls) < MaxCalls
    /\ \E connectionInfo \in {CurrentConnection, OtherConnection},
          reply \in Replies("test") :
           Becomes(test(World, connectionInfo, reply))

CallClose ==
    /\ Len(calls) < MaxCalls
    /\ \E session \in Sessions, reply \in Replies("close") :
           Becomes(close(World, session, reply))

CallListSessions ==
    /\ Len(calls) < MaxCalls
    /\ \E reply \in Replies("listSessions") :
           Becomes(listSessions(World, reply))

\* The callbacks of request r's promise run when an event has settled it.
Settled(w, r, reply) ==
    IF requests[r].promise = "pending" /\ w.requests[r].promise # "pending"
    THEN Then(w, r, reply)
    ELSE w

\* Request r's socket is gone: the bytes it had not delivered are lost.
Destroyed(w, r) ==
    [w EXCEPT !.sockets[r].destroyed = TRUE,
              !.sockets[r].wire = SubSeq(@, 1, w.sockets[r].pos)]

\* The next n bytes of the remote's answer arrive on request r's socket and
\* its 'data' listener runs.
Receive(r, n, reply) ==
    LET data == SubSeq(sockets[r].wire, sockets[r].pos + 1, sockets[r].pos + n)
        w == [World EXCEPT !.sockets[r].pos = @ + n,
                           !.sockets[r].heard = @ + n]
    IN  Becomes(Settled(OnData(w, r, data), r, reply))

\* A data event on request r's socket.
Data(r) ==
    /\ sockets[r].opened /\ ~sockets[r].destroyed /\ sockets[r].listeners
    /\ sockets[r].pos < Len(sockets[r].wire)
    /\ \E n \in ChunkSizes(Len(sockets[r].wire) - sockets[r].pos),
          reply \in FollowUps(requests[r]) :
           Receive(r, n, reply)

\* Bytes arrive on a socket whose listeners were removed: nothing runs.
DataUnheard(r) ==
    /\ sockets[r].opened /\ ~sockets[r].destroyed /\ ~sockets[r].listeners
    /\ sockets[r].pos < Len(sockets[r].wire)
    /\ sockets' = [sockets EXCEPT ![r].pos = Len(sockets[r].wire)]
    /\ UNCHANGED <<connection, calls, requests, notifications, disconnects>>

\* Request r's socket fails and its 'error' listener runs.  A connection is
\* refused before it carries anything.
Error(r) ==
    /\ sockets[r].opened /\ ~sockets[r].destroyed /\ sockets[r].listeners
    /\ \E code \in ErrorCodes :
           /\ code = "ECONNREFUSED" => sockets[r].pos = 0
           /\ Becomes(Settled(OnError(Destroyed(World, r), r, code), r, <<>>))

\* The remote closes request r's socket: send listens to neither 'end' nor
\* 'close', so nothing runs, and no event follows.
RemoteClose(r) ==
    /\ sockets[r].opened /\ ~sockets[r].destroyed /\ sockets[r].listeners
    /\ Becomes(Destroyed(World, r))

Next ==
    \/ HostConnect
    \/ CallComplete
    \/ CallInfo
    \/ CallEvaluate
    \/ CallEvaluateFile
    \/ CallStacktrace
    \/ CallRunTests
    \/ CallClone
    \/ CallTest
    \/ CallClose
    \/ CallListSessions
    \/ \E r \in DOMAIN sockets : Data(r)
    \/ \E r \in DOMAIN sockets : DataUnheard(r)
    \/ \E r \in DOMAIN sockets : Error(r)
    \/ \E r \in DOMAIN sockets : RemoteClose(r)

Spec == Init /\ [][Next]_vars

\* One operation, answered without a socket error, its answer cut into data
\* events at every place.
DataOfAnySize(r) ==
    /\ sockets[r].opened /\ ~sockets[r].destroyed /\ sockets[r].listeners
    /\ sockets[r].pos < Len(sockets[r].wire)
    /\ \E n \in 1..(Len(sockets[r].wire) - sockets[r].pos),
          reply \in FollowUps(requests[r]) :
           Receive(r, n, reply)

OneCall ==
    /\ calls = <<>>
    /\ \/ CallComplete
       \/ CallEvaluate
       \/ CallClone
       \/ CallListSessions

SplitNext ==
    \/ HostConnect
    \/ OneCall
    \/ \E r \in DOMAIN sockets : DataOfAnySize(r)

SplitSpec == Init /\ [][SplitNext]_vars


(* ------------------------------- claims -------------------------------- *)

\* The object's status is a list that contains "done".
CarriesDone(obj) ==
    LET status == Get(obj, "status")
    IN  status.t = "list" /\ \E i \in 1..Len(status.v) : status.v[i] = Str("done")

\* The objects the remote's bytes hold among the first n of them.
Arrived(r, n) == decodeObjects(SubSeq(sockets[r].wire, 1, n)).decodedObjects

\* C1: the list a send call resolves with holds no object after the first
\* one whose status list contains "done": an object decoded after the
\* marker, from the same data event or a later one, is never in it.
C1_NothingAfterDone ==
    \A r \in DOMAIN requests :
        requests[r].promise = "resolved" =>
            \A i \in 1..(Len(requests[r].respObjects) - 1) :
                ~CarriesDone(requests[r].respObjects[i])

\* C1's case: one resolved request got an object after the marker in the
\* data event of the marker, another in a later event.
C1_Witness ==
    /\ \E r \in DOMAIN requests :
           /\ requests[r].promise = "resolved"
           /\ Len(Arrived(r, sockets[r].heard)) > Len(requests[r].respObjects)
    /\ \E r \in DOMAIN requests :
           /\ requests[r].promise = "resolved"
           /\ sockets[r].pos > sockets[r].heard
           /\ Len(Arrived(r, sockets[r].heard)) = Len(requests[r].respObjects)
           /\ Len(Arrived(r, sockets[r].pos)) > Len(requests[r].respObjects)

\* C2: a send call settles its promise at most once: resolve and reject are
\* called once in all, and once the promise is settled no step changes its
\* state, its reason or the list its caller received.
C2_SettledOnce ==
    [][\A r \in DOMAIN requests' :
           /\ requests'[r].settles <= 1
           /\ (r \in DOMAIN requests /\ requests[r].promise # "pending") =>
                  /\ requests'[r].promise = requests[r].promise
                  /\ requests'[r].reason = requests[r].reason
                  /\ requests'[r].respObjects = requests[r].respObjects
                  /\ requests'[r].settles = requests[r].settles]_vars

\* C2's case: bytes arrived on the socket of a resolved request after it was
\* resolved, and another request was rejected by a socket error.
C2_Witness ==
    /\ \E r \in DOMAIN requests :
           /\ requests[r].promise = "resolved"
           /\ sockets[r].pos > sockets[r].heard
    /\ \E r \in DOMAIN requests :
           /\ requests[r].promise = "rejected"
           /\ requests[r].reason \in ErrorCodes

\* An event can still occur on request r's socket: the guards of Data,
\* DataUnheard, Error and RemoteClose.
EventLeft(r) ==
    /\ sockets[r].opened
    /\ ~sockets[r].destroyed
    /\ \/ sockets[r].listeners
       \/ sockets[r].pos < Len(sockets[r].wire)

\* C3: a pending send call whose socket is closed before the marker has
\* arrived is rejected in the end: once its socket is closed and no event is
\* left for it, which is when nothing can settle it any more, its promise is
\* not pending.
C3_ClosedThenRejected ==
    \A r \in DOMAIN requests :
        (sockets[r].destroyed /\ ~EventLeft(r)) =>
            requests[r].promise # "pending"

\* Why a closed socket's pending promise is pending for ever: no step
\* settles it.
C3_PendingStays ==
    [][\A r \in DOMAIN requests :
           (sockets[r].destroyed /\ requests[r].promise = "pending") =>
               /\ sockets'[r].destroyed
               /\ requests'[r].promise = "pending"]_vars

\* C4: a send call that has neither a connection of its caller nor a current
\* one is rejected, opens no socket and writes nothing.
C4_NoConnectionNoSocket ==
    \A r \in DOMAIN requests :
        requests[r].connection = NoConnection =>
            /\ requests[r].promise = "rejected"
            /\ requests[r].reason = "No connection found."
            /\ ~sockets[r].opened
            /\ sockets[r].written = <<>>

\* C4's case: an operation was invoked while there was no current
\* connection.
C4_Witness ==
    \E r \in DOMAIN requests :
        /\ requests[r].connection = NoConnection
        /\ calls[requests[r].call].promise = "rejected"

\* The step rejects request r with the error code.
RejectedWith(r, code) ==
    /\ r \in DOMAIN requests
    /\ requests[r].promise = "pending"
    /\ requests'[r].promise = "rejected"
    /\ requests'[r].reason = code

\* C5: a refused connection rejects the call, invalidates the current
\* connection and notifies the host once; any other socket error rejects
\* the call and does neither; nothing else notifies the host.
C5_RefusedDisconnects ==
    [][/\ \A r \in DOMAIN requests :
              /\ RejectedWith(r, "ECONNREFUSED") =>
                     /\ connection' = NoConnection
                     /\ notifications' = Append(notifications, r)
                     /\ disconnects' = Append(disconnects, r)
              /\ (\E code \in ErrorCodes \ {"ECONNREFUSED"} :
                      RejectedWith(r, code)) =>
                     /\ connection' = connection
                     /\ notifications' = notifications
                     /\ disconnects' = disconnects
       /\ (notifications' # notifications \/ disconnects' # disconnects) =>
              \E r \in DOMAIN requests : RejectedWith(r, "ECONNREFUSED")]_vars

\* C5's case: one request was refused its connection, another failed with a
\* different error.
C5_Witness ==
    /\ \E r \in DOMAIN requests :
           /\ requests[r].reason = "ECONNREFUSED"
           /\ Cardinality({i \in DOMAIN notifications : notifications[i] = r}) = 1
    /\ \E r \in DOMAIN requests : requests[r].reason = "ECONNRESET"

\* The object the bytes written to request r's socket decode to.
Sent(r) == decodeObjects(sockets[r].written[1]).decodedObjects[1]

\* C6: the request written to the socket holds exactly the keys of the
\* message whose value is not undefined, each with its value unchanged; a
\* key whose value is undefined is not transmitted.
C6_AbsentKeysStripped ==
    \A r \in DOMAIN requests :
        sockets[r].opened =>
            /\ sockets[r].written # <<>>
            /\ LET decoded == decodeObjects(sockets[r].written[1])
                   sent == decoded.decodedObjects[1].v
                   given == requests[r].given.v
               IN  /\ decoded.rest = <<>>
                   /\ Len(decoded.decodedObjects) = 1
                   /\ decoded.decodedObjects[1].t = "dict"
                   /\ \A i \in 1..Len(given) :
                          LET at == {j \in 1..Len(sent) : sent[j].k = given[i].k}
                          IN  IF given[i].v = Undefined THEN at = {}
                              ELSE /\ Cardinality(at) = 1
                                   /\ \A j \in at : sent[j].v = given[i].v
                   /\ \A j \in 1..Len(sent) :
                          \E i \in 1..Len(given) : given[i].k = sent[j].k

\* C6's case: an evaluate without a session wrote its clone, whose session
\* is undefined, and then its eval, whose session is not; a runTests without
\* a namespace wrote its request.
C6_Witness ==
    /\ \E r \in DOMAIN requests :
           /\ sockets[r].opened
           /\ Get(requests[r].given, "op") = Str("clone")
           /\ HasKey(requests[r].given, "session")
           /\ Get(requests[r].given, "session") = Undefined
    /\ \E r \in DOMAIN requests :
           /\ sockets[r].opened
           /\ Get(requests[r].given, "op") = Str("eval")
    /\ \E r \in DOMAIN requests :
           /\ sockets[r].opened
           /\ Get(requests[r].given, "op") = Str("test-all")

\* The requests made for call c, and the first of them.
RequestsOf(c) == {r \in DOMAIN requests : requests[r].call = c}
FirstOf(c) == CHOOSE r \in RequestsOf(c) : \A o \in RequestsOf(c) : r <= o

\* The new-session values the response objects of request r carry.
NewSessionsIn(r) ==
    {Get(requests[r].respObjects[i], "new-session") :
        i \in 1..Len(requests[r].respObjects)} \ {Undefined}

\* C7: evaluate and evaluateFile first send a clone of their own, with the
\* caller's session if there is one and no session key otherwise; the eval
\* or load-file request is sent only once that clone has resolved, and its
\* session is a new-session the clone's answer carries, never the caller's;
\* two evaluations whose clones got different ids use different sessions.
C7_FreshSessionPerEval ==
    /\ \A c \in DOMAIN calls :
           calls[c].op \in {"evaluate", "evaluateFile"} =>
               /\ RequestsOf(c) # {}
               /\ Cardinality(RequestsOf(c)) <= 2
               /\ Get(requests[FirstOf(c)].given, "op") = Str("clone")
               /\ Get(requests[FirstOf(c)].given, "session") = calls[c].arg
               /\ sockets[FirstOf(c)].opened =>
                      (HasKey(Sent(FirstOf(c)), "session")
                           <=> calls[c].arg # Undefined)
               /\ \A r \in RequestsOf(c) \ {FirstOf(c)} :
                      /\ requests[FirstOf(c)].promise = "resolved"
                      /\ Get(requests[r].given, "op") =
                             (IF calls[c].op = "evaluate" THEN Str("eval")
                              ELSE Str("load-file"))
                      /\ Get(requests[r].given, "session")
                             \in NewSessionsIn(FirstOf(c))
                      /\ Get(requests[r].given, "session") # calls[c].arg
    /\ \A c1, c2 \in DOMAIN calls :
           (/\ c1 # c2
            /\ calls[c1].op \in {"evaluate", "evaluateFile"}
            /\ calls[c2].op \in {"evaluate", "evaluateFile"}
            /\ NewSessionsIn(FirstOf(c1)) \cap NewSessionsIn(FirstOf(c2)) = {}) =>
               \A r1 \in RequestsOf(c1) \ {FirstOf(c1)},
                  r2 \in RequestsOf(c2) \ {FirstOf(c2)} :
                   Get(requests[r1].given, "session")
                       # Get(requests[r2].given, "session")

\* C7's case: two evaluate calls without a session, each with its clone and
\* its eval, the two evals in different sessions.
C7_Witness ==
    \E c1, c2 \in DOMAIN calls :
        /\ c1 # c2
        /\ calls[c1].op = "evaluate" /\ calls[c1].arg = Undefined
        /\ calls[c2].op = "evaluate" /\ calls[c2].arg = Undefined
        /\ \E r1 \in RequestsOf(c1) \ {FirstOf(c1)},
              r2 \in RequestsOf(c2) \ {FirstOf(c2)} :
               /\ sockets[r1].opened /\ sockets[r2].opened
               /\ Get(Sent(r1), "session") # Get(Sent(r2), "session")

\* C8: listSessions resolves with the sessions of the first response object
\* when that object's status list contains "done", wherever in the list, and
\* the object has a sessions list; it rejects otherwise.
C8_SessionsWhenDone ==
    \A c \in DOMAIN calls :
        (calls[c].op = "listSessions"
             /\ requests[FirstOf(c)].promise = "resolved") =>
            LET response == requests[FirstOf(c)].respObjects[1]
            IN  IF CarriesDone(response)
                       /\ Get(response, "sessions").t = "list"
                THEN /\ calls[c].promise = "resolved"
                     /\ calls[c].value = Get(response, "sessions")
                ELSE calls[c].promise = "rejected"

\* The response objects of request r that have a new-session key.
Carriers(r) ==
    {i \in 1..Len(requests[r].respObjects) :
        HasKey(requests[r].respObjects[i], "new-session")}

\* ... and those whose new-session is a value JavaScript takes for true:
\* not the empty string, not 0.
TrueCarriers(r) ==
    {i \in Carriers(r) :
        LET id == Get(requests[r].respObjects[i], "new-session")
        IN  id # Str("") /\ id # Num(0)}

\* C9 as claimed: clone resolves with the new-session of the first response
\* object that has one, and rejects if and only if none has one.
C9_FirstNewSession ==
    \A c \in DOMAIN calls :
        (calls[c].op = "clone" /\ requests[FirstOf(c)].promise = "resolved") =>
            IF Carriers(FirstOf(c)) # {}
            THEN /\ calls[c].promise = "resolved"
                 /\ \E i \in Carriers(FirstOf(c)) :
                        /\ \A j \in Carriers(FirstOf(c)) : i <= j
                        /\ calls[c].value =
                               Get(requests[FirstOf(c)].respObjects[i],
                                   "new-session")
            ELSE calls[c].promise = "rejected"

\* C9, amended: clone resolves with the new-session of the first response
\* object whose new-session is not empty, whatever its place in the stream,
\* and rejects if and only if no object has such a new-session.
C9_FirstNonEmptyNewSession ==
    \A c \in DOMAIN calls :
        (calls[c].op = "clone" /\ requests[FirstOf(c)].promise = "resolved") =>
            IF TrueCarriers(FirstOf(c)) # {}
            THEN /\ calls[c].promise = "resolved"
                 /\ \E i \in TrueCarriers(FirstOf(c)) :
                        /\ \A j \in TrueCarriers(FirstOf(c)) : i <= j
                        /\ calls[c].value =
                               Get(requests[FirstOf(c)].respObjects[i],
                                   "new-session")
            ELSE /\ calls[c].promise = "rejected"
                 /\ calls[c].value = [t |-> "rejection", v |-> "No session found"]

\* C9's case: a clone resolved with the new-session of an object that was
\* not the first of its stream, and another clone, whose stream had none,
\* was rejected.
C9_Witness ==
    /\ \E c \in DOMAIN calls :
           /\ calls[c].op = "clone"
           /\ calls[c].promise = "resolved"
           /\ \A i \in TrueCarriers(FirstOf(c)) : i > 1
    /\ \E c \in DOMAIN calls :
           /\ calls[c].op = "clone"
           /\ requests[FirstOf(c)].promise = "resolved"
           /\ calls[c].promise = "rejected"

\* Request r as it would be had it run alone: a fresh request with the same
\* message, given the bytes its listener got and then the error it got.
Alone(r) ==
    LET fresh == [requests[r] EXCEPT !.nreplResp = <<>>, !.respObjects = <<>>,
                                     !.promise = "pending", !.reason = "",
                                     !.settles = 0, !.detached = FALSE]
        w0 == [connection |-> requests[r].connection, calls |-> <<>>,
               requests |-> <<fresh>>,
               sockets |-> <<[NoSocket EXCEPT !.opened = TRUE,
                                              !.listeners = TRUE]>>,
               notifications |-> <<>>, disconnects |-> <<>>]
        w1 == IF sockets[r].heard > 0
              THEN OnData(w0, 1, SubSeq(sockets[r].wire, 1, sockets[r].heard))
              ELSE w0
        w2 == IF requests[r].reason \in ErrorCodes
              THEN OnError(w1, 1, requests[r].reason)
              ELSE w1
    IN  w2.requests[1]

\* Request r's closure changes in the step.
Touched(r) ==
    \/ requests'[r].nreplResp # requests[r].nreplResp
    \/ requests'[r].respObjects # requests[r].respObjects
    \/ requests'[r].promise # requests[r].promise
    \/ requests'[r].reason # requests[r].reason

\* C10: requests in flight together are independent: a step changes the
\* remainder, the result list and the promise of one request at most, the
\* one whose socket has the event, and every request is as it would be had
\* it run alone with the events of its socket.
C10_Independent ==
    /\ [](\A r \in DOMAIN requests :
              sockets[r].opened => requests[r] = Alone(r))
    /\ [][\A r \in DOMAIN requests :
              Touched(r) =>
                  /\ \/ sockets'[r].pos # sockets[r].pos
                     \/ sockets'[r].destroyed # sockets[r].destroyed
                  /\ \A o \in DOMAIN requests \ {r} : ~Touched(o)]_vars

\* C10's case: two requests are pending at once, each with a part of an
\* object in its remainder, and the two remainders differ.
C10_Witness ==
    \E r1, r2 \in DOMAIN requests :
        /\ r1 # r2
        /\ requests[r1].promise = "pending" /\ requests[r2].promise = "pending"
        /\ requests[r1].nreplResp # <<>>
        /\ requests[r2].nreplResp # <<>>
        /\ requests[r1].nreplResp # requests[r2].nreplResp

\* What request r holds once a single data event has brought it the first n
\* bytes of its answer.
Whole(r, n) ==
    LET decoded == decodeObjects(SubSeq(sockets[r].wire, 1, n))
    IN  [respObjects |-> validDecodedObjects(<<>>, decoded.decodedObjects),
         nreplResp |-> decoded.rest]

\* C11: however the bytes of an answer are cut into data events, send holds
\* the result list and the remainder it would hold had the bytes come in one
\* event, and it resolves with the list the whole answer gives in one event;
\* a data event that completes no object leaves the result list as it was
\* and the promise pending.
C11_SplitsAgree ==
    /\ [](\A r \in DOMAIN requests :
              sockets[r].opened =>
                  LET q == requests[r]
                      heard == Whole(r, sockets[r].heard)
                      whole == Whole(r, Len(sockets[r].wire))
                  IN  /\ q.respObjects = heard.respObjects
                      /\ q.nreplResp = heard.nreplResp
                      /\ q.promise = "resolved" <=>
                             isLastNreplObject(heard.respObjects)
                      /\ (q.promise = "resolved"
                              \/ sockets[r].heard = Len(sockets[r].wire)) =>
                             q.respObjects = whole.respObjects)
    /\ [][\A r \in DOMAIN requests :
              (/\ sockets'[r].heard > sockets[r].heard
               /\ Len(Arrived(r, sockets'[r].heard))
                      = Len(Arrived(r, sockets[r].heard))) =>
                  /\ requests'[r].respObjects = requests[r].respObjects
                  /\ requests'[r].promise = "pending"]_vars

\* C11's case: a request is pending with objects in its list and a part of
\* the next one in its remainder, after data events that cut its answer at
\* places the chunks of ChunkStep bytes never cut it; and a request was
\* resolved with several objects.
C11_Witness ==
    /\ \E r \in DOMAIN requests :
           /\ requests[r].promise = "pending"
           /\ requests[r].respObjects # <<>>
           /\ Len(requests[r].nreplResp) = 1
           /\ sockets[r].heard % ChunkStep # 0
    /\ \E r \in DOMAIN requests :
           /\ requests[r].promise = "resolved"
           /\ Len(requests[r].respObjects) > 1

\* C12: send resolves only with a list whose last object carries "done" in
\* its status list, and in the data event that brings the first such object:
\* a resolved list is not empty and its last object, and no other, carries
\* the marker; a request whose listener has heard an object with the marker
\* is no longer pending; and a request that has heard none and got no socket
\* error is pending, whatever else happened to its socket.
C12_ResolvedIffDone ==
    /\ [](\A r \in DOMAIN requests :
              sockets[r].opened =>
                  LET q == requests[r]
                      arrived == Arrived(r, sockets[r].heard)
                      marked == {i \in 1..Len(arrived) : CarriesDone(arrived[i])}
                      n == Len(q.respObjects)
                  IN  /\ q.promise = "resolved" =>
                             /\ n > 0
                             /\ CarriesDone(q.respObjects[n])
                             /\ \A i \in 1..(n - 1) :
                                    ~CarriesDone(q.respObjects[i])
                             /\ \A i \in marked : n <= i
                      /\ q.promise = "pending" => marked = {}
                      /\ (marked = {} /\ q.reason \notin ErrorCodes) =>
                             q.promise = "pending")
    /\ [][\A r \in DOMAIN requests :
              (requests[r].promise = "pending"
                   /\ requests'[r].promise = "resolved") =>
                  sockets'[r].heard > sockets[r].heard]_vars

\* C12's case: a request was resolved with several objects, and another one,
\* whose socket the remote closed after objects without the marker, is still
\* pending.
C12_Witness ==
    /\ \E r \in DOMAIN requests :
           /\ requests[r].promise = "resolved"
           /\ Len(requests[r].respObjects) > 1
    /\ \E r \in DOMAIN requests :
           /\ requests[r].promise = "pending"
           /\ requests[r].respObjects # <<>>
           /\ sockets[r].destroyed

\* The clone of call c has given a session.
CloneSucceeded(c) ==
    /\ requests[FirstOf(c)].promise = "resolved"
    /\ TrueCarriers(FirstOf(c)) # {}

\* C13: a send call that has a connection opens one socket of its own, to
\* that connection, and writes its encoded request to it once, before any
\* data is handled; a send call that has none opens no socket; so the
\* sockets opened are as many as the send calls that had a connection, and
\* evaluate and evaluateFile make two send calls when their clone has given
\* a session and one otherwise.
C13_OneSocketPerSend ==
    /\ [](/\ Len(sockets) = Len(requests)
          /\ \A r \in DOMAIN requests :
                 /\ sockets[r].opened <=> requests[r].connection # NoConnection
                 /\ sockets[r].opened =>
                        /\ sockets[r].to = requests[r].connection
                        /\ sockets[r].written = <<encode(requests[r].msg)>>
                 /\ ~sockets[r].opened =>
                        sockets[r].written = <<>> /\ sockets[r].heard = 0
          /\ Cardinality({r \in DOMAIN sockets : sockets[r].opened})
                 = Cardinality({r \in DOMAIN requests :
                                   requests[r].connection # NoConnection})
          /\ \A c \in DOMAIN calls :
                 Cardinality(RequestsOf(c)) =
                     IF calls[c].op \in {"evaluate", "evaluateFile"}
                            /\ CloneSucceeded(c)
                     THEN 2 ELSE 1)
    /\ [][\A r \in DOMAIN sockets :
              /\ sockets'[r].opened = sockets[r].opened
              /\ sockets'[r].to = sockets[r].to
              /\ sockets'[r].written = sockets[r].written]_vars

\* C13's case: an evaluate whose clone gave a session has its two sockets,
\* each with its own request, while another call has a third one.
C13_Witness ==
    \E c \in DOMAIN calls :
        /\ calls[c].op = "evaluate"
        /\ CloneSucceeded(c)
        /\ \A r \in RequestsOf(c) : sockets[r].opened
        /\ \E r1, r2 \in RequestsOf(c) :
               sockets[r1].written # sockets[r2].written
        /\ \E r \in DOMAIN sockets \ RequestsOf(c) : sockets[r].opened

\* C14: a send call that opened a socket and whose promise is settled, by
\* the marker or by a socket error, has its socket ended and without
\* listeners, and had it so when resolve or reject was called.
C14_DetachedBeforeSettled ==
    \A r \in DOMAIN requests :
        (sockets[r].opened /\ requests[r].promise # "pending") =>
            /\ sockets[r].ended
            /\ ~sockets[r].listeners
            /\ requests[r].detached

\* C14's case: one request was resolved by the marker and another rejected
\* by a socket error.
C14_Witness ==
    /\ \E r \in DOMAIN requests :
           sockets[r].opened /\ requests[r].promise = "resolved"
    /\ \E r \in DOMAIN requests :
           sockets[r].opened /\ requests[r].promise = "rejected"

\* C15: a send call given a connection by its caller opens its socket to
\* that host and port, whether the current connection is the same, another
\* one or none; a send call given none opens its socket to the connection
\* that was current when it was called, and opens none if there was none.
C15_CallerConnectionFirst ==
    \A r \in DOMAIN requests :
        LET q == requests[r]
        IN  IF q.explicit # NoConnection
            THEN /\ sockets[r].opened
                 /\ sockets[r].to.host = q.explicit.host
                 /\ sockets[r].to.port = q.explicit.port
            ELSE IF q.ambient # NoConnection
            THEN /\ sockets[r].opened
                 /\ sockets[r].to = q.ambient
            ELSE ~sockets[r].opened

\* C15's case: test was called with a connection while there was no current
\* one, and called with a connection while the current one was another.
C15_Witness ==
    /\ \E r \in DOMAIN requests :
           /\ requests[r].explicit = OtherConnection
           /\ requests[r].ambient = NoConnection
    /\ \E r \in DOMAIN requests :
           /\ requests[r].explicit = OtherConnection
           /\ requests[r].ambient = CurrentConnection

\* C16: the request runTests writes has op "test" and the namespace as its
\* ns when a namespace was given, and op "test-all" and no ns key when none
\* was; it has 'load?' = 1 in both cases.  Whether an empty namespace counts
\* as given or not, "test" comes with the ns it was given and "test-all"
\* comes without ns.
C16_TestOrTestAll ==
    \A r \in DOMAIN requests :
        (calls[requests[r].call].op = "runTests" /\ sockets[r].opened) =>
            LET sent == Sent(r)
                namespace == calls[requests[r].call].arg
            IN  /\ Get(sent, "op") \in {Str("test"), Str("test-all")}
                /\ Get(sent, "load?") = Num(1)
                /\ Truthy(namespace) => Get(sent, "op") = Str("test")
                /\ namespace = Undefined => Get(sent, "op") = Str("test-all")
                /\ Get(sent, "op") = Str("test") =>
                       /\ namespace # Undefined
                       /\ Get(sent, "ns") = namespace
                /\ Get(sent, "op") = Str("test-all") => ~HasKey(sent, "ns")

\* The rejection of an operation's promise with a reason.
Rejection(reason) == [t |-> "rejection", v |-> reason]

\* C17: when the clone of an evaluate or an evaluateFile fails, for want of
\* a connection, by a socket error or because its answer carries no session,
\* the operation is rejected with that failure and its clone is the only
\* request ever made for it: no eval or load-file request, no second socket,
\* no second clone.
C17_CloneFailureRejects ==
    \A c \in DOMAIN calls :
        calls[c].op \in {"evaluate", "evaluateFile"} =>
            LET first == FirstOf(c)
                q == requests[first]
            IN  /\ q.promise = "rejected" =>
                       /\ q.reason \in ErrorCodes \cup {"No connection found."}
                       /\ calls[c].promise = "rejected"
                       /\ calls[c].value = Rejection(q.reason)
                       /\ RequestsOf(c) = {first}
                /\ (q.promise = "resolved" /\ TrueCarriers(first) = {}) =>
                       /\ calls[c].promise = "rejected"
                       /\ calls[c].value = Rejection("No session found")
                       /\ RequestsOf(c) = {first}

\* C17's case: the clone of an evaluate was rejected by a socket error, and
\* the clone of an evaluateFile was resolved with an answer that carries no
\* session.
C17_Witness ==
    /\ \E c \in DOMAIN calls :
           /\ calls[c].op = "evaluate"
           /\ requests[FirstOf(c)].reason \in ErrorCodes
    /\ \E c \in DOMAIN calls :
           /\ calls[c].op = "evaluateFile"
           /\ requests[FirstOf(c)].promise = "resolved"
           /\ Carriers(FirstOf(c)) = {}

\* C18: a send call reads the current connection once, when it is called.
\* A send call without a connection of its caller, made while there is no
\* current connection, is rejected for want of a connection and opens no
\* socket; one made while there is a current connection opens its socket to
\* it.  Once its socket is open, a request does not depend on the current
\* connection: the step in which another request is refused its connection
\* invalidates the current connection and changes neither the request nor
\* its socket, and whatever the current connection has become, the request
\* is settled as the events of its own socket settle it.
C18_ConnectionReadAtCall ==
    /\ [](\A r \in DOMAIN requests :
              LET q == requests[r]
              IN  /\ (q.explicit = NoConnection /\ q.ambient = NoConnection) =>
                         /\ q.promise = "rejected"
                         /\ q.reason = "No connection found."
                         /\ ~sockets[r].opened
                  /\ (q.explicit = NoConnection /\ q.ambient # NoConnection) =>
                         /\ sockets[r].opened
                         /\ sockets[r].to = q.ambient
                  /\ (sockets[r].opened /\ connection # sockets[r].to) =>
                         LET alone == Alone(r)
                         IN  /\ q.promise = alone.promise
                             /\ q.reason = alone.reason
                             /\ q.respObjects = alone.respObjects)
    /\ [][/\ \A r \in DOMAIN requests' \ DOMAIN requests :
                requests'[r].ambient = connection
          /\ \A r \in DOMAIN requests :
                RejectedWith(r, "ECONNREFUSED") =>
                    /\ connection' = NoConnection
                    /\ \A o \in DOMAIN requests \ {r} :
                           /\ requests'[o] = requests[o]
                           /\ sockets'[o] = sockets[o]]_vars

\* C18's case: a request was refused its connection while the clone of an
\* evaluation was in flight; the clone was resolved all the same, and the
\* request the evaluation sent next, finding no current connection, was
\* rejected without a socket.
C18_Witness ==
    \E r1, r2, r3 \in DOMAIN requests :
        /\ requests[r2].reason = "ECONNREFUSED"
        /\ requests[r2].call # requests[r1].call
        /\ requests[r1].ambient # NoConnection
        /\ requests[r1].promise = "resolved"
        /\ r1 < r3
        /\ requests[r3].call = requests[r1].call
        /\ requests[r3].ambient = NoConnection
        /\ requests[r3].reason = "No connection found."
        /\ ~sockets[r3].opened

====
